---- MODULE Spec2Model ----
(***************************************************************************)
(* Model of the chess service: the game engine (app/chess.py), the         *)
(* persistence codec and repository (app/repositories/chess_games.py) and  *)
(* the three game handlers (app/api/v1/chess.py).                          *)
(*                                                                         *)
(* One game record lives in the key-value store.  Every handler is split   *)
(* at its awaits on the store: a request first reads the record (or, for   *)
(* create, writes the first version of it), then runs its checks on its    *)
(* private copy and, on success, writes the whole record back.             *)
(***************************************************************************)
EXTENDS Integers, Sequences, FiniteSets, TLC

\* ------------------------------------------------------------------------
\* Bounds of the model

\* most moves reported as applied in one behaviour
MaxMoves == 2

\* request slots: Reqs may be in flight together, SeqReqs is one request
\* at a time
Reqs == {1, 2}
SeqReqs == {1}

\* the squares a move request may name when requests race, and when they
\* come one at a time
ConcSquares == {<<"E", "2">>, <<"E", "3">>, <<"E", "4">>, <<"E", "6">>, <<"E", "7">>}
SeqSquares == {<<"A", "1">>, <<"B", "1">>, <<"C", "1">>, <<"D", "1">>, <<"E", "1">>,
               <<"E", "2">>, <<"A", "3">>, <<"C", "3">>, <<"E", "3">>, <<"E", "4">>,
               <<"E", "5">>, <<"E", "6">>, <<"E", "7">>, <<"E", "8">>}

\* a square text that does not parse
BadTexts == {<<"e", "2">>}

\* a user id in memory is a UUID object, on the wire its text
UUID(text) == [hex |-> text]
str(uuid) == uuid.hex

\* authenticated users; u1 is the one who creates the game
Users == {UUID("u1"), UUID("u2"), UUID("u3")}
Creators == {UUID("u1")}

\* the secret token_hex hands out, and the ones a joining request may send
GeneratedSecrets == {"s1"}
Secrets == {"s1", "s2"}

\* Python's None and JSON's null; a JSON string that stands where null may
\* stand is tagged, so that the two kinds of value can be told apart
None == [none |-> TRUE]
null == [null |-> TRUE]
JSONString(s) == [string |-> s]

\* ------------------------------------------------------------------------
\* app/chess.py: geometry

VALID_FILES == <<"A", "B", "C", "D", "E", "F", "G", "H">>
VALID_RANKS == <<"1", "2", "3", "4", "5", "6", "7", "8">>

Range(s) == {s[i] : i \in DOMAIN s}

IndexOf(s, x) == CHOOSE i \in DOMAIN s : s[i] = x

\* ord() of a file letter: ord("A") = 65
ord(c) == 64 + IndexOf(VALID_FILES, c)

\* int() of a rank digit
int(c) == IndexOf(VALID_RANKS, c)

abs(n) == IF n < 0 THEN -n ELSE n

BoardSquare(f, r) == [file |-> f, rank |-> r]

AllSquares == {BoardSquare(f, r) : f \in Range(VALID_FILES), r \in Range(VALID_RANKS)}

\* BoardSquare.__repr__: the text "{file}{rank}", a sequence of characters
repr(sq) == <<sq.file, sq.rank>>

\* ------------------------------------------------------------------------
\* app/chess.py: pieces and their move shapes

KING == "KING"
QUEEN == "QUEEN"
ROOK == "ROOK"
BISHOP == "BISHOP"
KNIGHT == "KNIGHT"
PAWN == "PAWN"
ChessPieceType == {KING, QUEEN, ROOK, BISHOP, KNIGHT, PAWN}

WHITE == "WHITE"
BLACK == "BLACK"
ChessPieceColor == {WHITE, BLACK}

ChessPiece(t, c) == [piece_type |-> t, color |-> c]

Move(f, t, p) == [square_from |-> f, square_to |-> t, chess_piece |-> p]

_can_king_move(move) ==
    /\ abs(ord(move.square_from.file) - ord(move.square_to.file)) <= 1
    /\ abs(int(move.square_from.rank) - int(move.square_to.rank)) <= 1

_can_rook_move(move) ==
    \/ move.square_from.file = move.square_to.file
    \/ move.square_from.rank = move.square_to.rank

\* variant: a bishop has to leave its square
_can_bishop_move_Nonzero(move) ==
    /\ move.square_from # move.square_to
    /\ abs(ord(move.square_from.file) - ord(move.square_to.file))
           = abs(int(move.square_from.rank) - int(move.square_to.rank))

_can_bishop_move(move) ==
    abs(ord(move.square_from.file) - ord(move.square_to.file))
        = abs(int(move.square_from.rank) - int(move.square_to.rank))

_can_queen_move(move) == _can_rook_move(move) \/ _can_bishop_move(move)

\* variant: only one file aside and two ranks along
_can_knight_move_OneTwo(move) ==
    /\ abs(ord(move.square_from.file) - ord(move.square_to.file)) = 1
    /\ abs(int(move.square_from.rank) - int(move.square_to.rank)) = 2

_can_knight_move(move) ==
    \/ /\ abs(ord(move.square_from.file) - ord(move.square_to.file)) = 1
       /\ abs(int(move.square_from.rank) - int(move.square_to.rank)) = 2
    \/ /\ abs(ord(move.square_from.file) - ord(move.square_to.file)) = 2
       /\ abs(int(move.square_from.rank) - int(move.square_to.rank)) = 1

\* variant: the two-square advance from rank 7 is missing
_can_pawn_move_NoSevenFive(move) ==
    \/ /\ move.square_from.file = move.square_to.file
       /\ \/ (move.square_from.rank = "2" /\ move.square_to.rank = "4")
          \/ abs(int(move.square_from.rank) - int(move.square_to.rank)) = 1
    \/ /\ abs(ord(move.square_from.file) - ord(move.square_to.file)) = 1
       /\ abs(int(move.square_from.rank) - int(move.square_to.rank)) = 1

_can_pawn_move(move) ==
    \/ /\ move.square_from.file = move.square_to.file
       /\ \/ (move.square_from.rank = "2" /\ move.square_to.rank = "4")
          \/ (move.square_from.rank = "7" /\ move.square_to.rank = "5")
          \/ abs(int(move.square_from.rank) - int(move.square_to.rank)) = 1
    \/ /\ abs(ord(move.square_from.file) - ord(move.square_to.file)) = 1
       /\ abs(int(move.square_from.rank) - int(move.square_to.rank)) = 1

can_make_move(piece, move) ==
    IF piece.piece_type = KING THEN _can_king_move(move)
    ELSE IF piece.piece_type = QUEEN THEN _can_queen_move(move)
    ELSE IF piece.piece_type = ROOK THEN _can_rook_move(move)
    ELSE IF piece.piece_type = BISHOP THEN _can_bishop_move(move)
    ELSE IF piece.piece_type = KNIGHT THEN _can_knight_move(move)
    ELSE IF piece.piece_type = PAWN THEN _can_pawn_move(move)
    ELSE FALSE

\* ------------------------------------------------------------------------
\* app/chess.py: the board, a dict from occupied squares to pieces

EmptyPieces == [sq \in {} |-> ChessPiece(PAWN, WHITE)]

set_piece(pieces, square, piece) ==
    [sq \in DOMAIN pieces \cup {square} |-> IF sq = square THEN piece ELSE pieces[sq]]

remove_piece(pieces, square) ==
    [sq \in DOMAIN pieces \ {square} |-> pieces[sq]]

is_square_occupied(pieces, square) == square \in DOMAIN pieces

get_piece_on_square(pieces, square) ==
    IF square \in DOMAIN pieces THEN pieces[square] ELSE None

STARTING_POSITION ==
    (BoardSquare("E", "1") :> ChessPiece(KING, WHITE)) @@
    (BoardSquare("D", "1") :> ChessPiece(QUEEN, WHITE)) @@
    (BoardSquare("A", "1") :> ChessPiece(ROOK, WHITE)) @@
    (BoardSquare("H", "1") :> ChessPiece(ROOK, WHITE)) @@
    (BoardSquare("C", "1") :> ChessPiece(BISHOP, WHITE)) @@
    (BoardSquare("F", "1") :> ChessPiece(BISHOP, WHITE)) @@
    (BoardSquare("B", "1") :> ChessPiece(KNIGHT, WHITE)) @@
    (BoardSquare("G", "1") :> ChessPiece(KNIGHT, WHITE)) @@
    (BoardSquare("A", "2") :> ChessPiece(PAWN, WHITE)) @@
    (BoardSquare("B", "2") :> ChessPiece(PAWN, WHITE)) @@
    (BoardSquare("C", "2") :> ChessPiece(PAWN, WHITE)) @@
    (BoardSquare("D", "2") :> ChessPiece(PAWN, WHITE)) @@
    (BoardSquare("E", "2") :> ChessPiece(PAWN, WHITE)) @@
    (BoardSquare("F", "2") :> ChessPiece(PAWN, WHITE)) @@
    (BoardSquare("G", "2") :> ChessPiece(PAWN, WHITE)) @@
    (BoardSquare("H", "2") :> ChessPiece(PAWN, WHITE)) @@
    (BoardSquare("E", "8") :> ChessPiece(KING, BLACK)) @@
    (BoardSquare("D", "8") :> ChessPiece(QUEEN, BLACK)) @@
    (BoardSquare("A", "8") :> ChessPiece(ROOK, BLACK)) @@
    (BoardSquare("H", "8") :> ChessPiece(ROOK, BLACK)) @@
    (BoardSquare("C", "8") :> ChessPiece(BISHOP, BLACK)) @@
    (BoardSquare("F", "8") :> ChessPiece(BISHOP, BLACK)) @@
    (BoardSquare("B", "8") :> ChessPiece(KNIGHT, BLACK)) @@
    (BoardSquare("G", "8") :> ChessPiece(KNIGHT, BLACK)) @@
    (BoardSquare("A", "7") :> ChessPiece(PAWN, BLACK)) @@
    (BoardSquare("B", "7") :> ChessPiece(PAWN, BLACK)) @@
    (BoardSquare("C", "7") :> ChessPiece(PAWN, BLACK)) @@
    (BoardSquare("D", "7") :> ChessPiece(PAWN, BLACK)) @@
    (BoardSquare("E", "7") :> ChessPiece(PAWN, BLACK)) @@
    (BoardSquare("F", "7") :> ChessPiece(PAWN, BLACK)) @@
    (BoardSquare("G", "7") :> ChessPiece(PAWN, BLACK)) @@
    (BoardSquare("H", "7") :> ChessPiece(PAWN, BLACK))

\* variant: the starting position is laid over what the board holds
reset_to_starting_position_Update(pieces) ==
    [sq \in DOMAIN pieces \cup DOMAIN STARTING_POSITION |->
        IF sq \in DOMAIN STARTING_POSITION THEN STARTING_POSITION[sq] ELSE pieces[sq]]

reset_to_starting_position(pieces) ==
    [sq \in DOMAIN STARTING_POSITION |-> STARTING_POSITION[sq]]

\* ------------------------------------------------------------------------
\* app/chess.py: the game

GameId == UUID("g1")

\* variant: the two user ids land in each other's slot
ChessGame_SwappedSlots(white, black, secret) ==
    [game_id |-> GameId,
     board |-> [pieces |-> EmptyPieces],
     move_history |-> << >>,
     white_user_id |-> black,
     black_user_id |-> white,
     invite_secret |-> secret,
     next_turn |-> WHITE]

ChessGame(white, black, secret) ==
    [game_id |-> GameId,
     board |-> [pieces |-> EmptyPieces],
     move_history |-> << >>,
     white_user_id |-> white,
     black_user_id |-> black,
     invite_secret |-> secret,
     next_turn |-> WHITE]

\* variant: the move is not recorded in the history
move_piece_NoAppend(game, move) ==
    LET piece == get_piece_on_square(game.board.pieces, move.square_from)
        removed == remove_piece(game.board.pieces, move.square_from)
        placed == set_piece(removed, move.square_to, piece)
    IN [game EXCEPT !.board = [pieces |-> placed],
                    !.next_turn = IF @ = BLACK THEN WHITE ELSE BLACK]

\* variant: the piece is not taken off its square
move_piece_NoRemove(game, move) ==
    LET piece == get_piece_on_square(game.board.pieces, move.square_from)
        placed == set_piece(game.board.pieces, move.square_to, piece)
    IN [game EXCEPT !.board = [pieces |-> placed],
                    !.move_history = Append(@, move),
                    !.next_turn = IF @ = BLACK THEN WHITE ELSE BLACK]

\* variant: the turn always passes to BLACK
move_piece_NoFlip(game, move) ==
    LET piece == get_piece_on_square(game.board.pieces, move.square_from)
        removed == remove_piece(game.board.pieces, move.square_from)
        placed == set_piece(removed, move.square_to, piece)
    IN [game EXCEPT !.board = [pieces |-> placed],
                    !.move_history = Append(@, move),
                    !.next_turn = BLACK]

\* variant: the piece is taken off its square and put nowhere
move_piece_NoPlace(game, move) ==
    LET removed == remove_piece(game.board.pieces, move.square_from)
    IN [game EXCEPT !.board = [pieces |-> removed],
                    !.move_history = Append(@, move),
                    !.next_turn = IF @ = BLACK THEN WHITE ELSE BLACK]

move_piece(game, move) ==
    LET piece == get_piece_on_square(game.board.pieces, move.square_from)
        removed == remove_piece(game.board.pieces, move.square_from)
        placed == set_piece(removed, move.square_to, piece)
    IN [game EXCEPT !.board = [pieces |-> placed],
                    !.move_history = Append(@, move),
                    !.next_turn = IF @ = BLACK THEN WHITE ELSE BLACK]

\* None where a colour is expected (colours are strings)
NoneColor == "None"

get_user_color(game, user_id) ==
    IF user_id = game.white_user_id THEN WHITE
    ELSE IF user_id = game.black_user_id THEN BLACK
    ELSE NoneColor

\* ------------------------------------------------------------------------
\* app/repositories/chess_games.py: the codec.  The stored bytes are the
\* JSON object, modelled as a record whose board is keyed by square texts.

\* app/json.py: a UUID is written as its text, None as null
JSONEncoder(o) == IF o = None THEN null ELSE JSONString(str(o))

serialize(chess_game) ==
    LET pieces == chess_game.board.pieces
    IN [game_id |-> JSONEncoder(chess_game.game_id),
        board |-> [pieces |->
            [t \in {repr(k) : k \in DOMAIN pieces} |->
                LET k == CHOOSE k \in DOMAIN pieces : repr(k) = t
                IN [piece_type |-> pieces[k].piece_type, color |-> pieces[k].color]]],
        move_history |->
            [i \in DOMAIN chess_game.move_history |->
                LET move == chess_game.move_history[i]
                IN [square_from |-> repr(move.square_from),
                    square_to |-> repr(move.square_to),
                    chess_piece |-> [piece_type |-> move.chess_piece.piece_type,
                                     color |-> move.chess_piece.color]]],
        white_user_id |-> JSONEncoder(chess_game.white_user_id),
        black_user_id |-> JSONEncoder(chess_game.black_user_id),
        invite_secret |-> chess_game.invite_secret,
        next_turn |-> chess_game.next_turn]

\* variant: a move's destination is read from its square_from
deserialize_FromAsTo(obj) ==
    LET pieces == obj.board.pieces
    IN [game_id |-> UUID(obj.game_id.string),
        board |-> [pieces |->
            [sq \in {BoardSquare(k[1], k[2]) : k \in DOMAIN pieces} |->
                LET k == CHOOSE k \in DOMAIN pieces : BoardSquare(k[1], k[2]) = sq
                IN ChessPiece(pieces[k].piece_type, pieces[k].color)]],
        move_history |->
            [i \in DOMAIN obj.move_history |->
                LET k == obj.move_history[i]
                IN Move(BoardSquare(k.square_from[1], k.square_from[2]),
                        BoardSquare(k.square_from[1], k.square_from[2]),
                        ChessPiece(k.chess_piece.piece_type, k.chess_piece.color))],
        white_user_id |-> IF obj.white_user_id \notin {null, JSONString("")}
                          THEN UUID(obj.white_user_id.string) ELSE None,
        black_user_id |-> IF obj.black_user_id \notin {null, JSONString("")}
                          THEN UUID(obj.black_user_id.string) ELSE None,
        invite_secret |-> obj.invite_secret,
        next_turn |-> obj.next_turn]

deserialize(obj) ==
    LET pieces == obj.board.pieces
    IN [game_id |-> UUID(obj.game_id.string),
        board |-> [pieces |->
            [sq \in {BoardSquare(k[1], k[2]) : k \in DOMAIN pieces} |->
                LET k == CHOOSE k \in DOMAIN pieces : BoardSquare(k[1], k[2]) = sq
                IN ChessPiece(pieces[k].piece_type, pieces[k].color)]],
        move_history |->
            [i \in DOMAIN obj.move_history |->
                LET k == obj.move_history[i]
                IN Move(BoardSquare(k.square_from[1], k.square_from[2]),
                        BoardSquare(k.square_to[1], k.square_to[2]),
                        ChessPiece(k.chess_piece.piece_type, k.chess_piece.color))],
        white_user_id |-> IF obj.white_user_id \notin {null, JSONString("")}
                          THEN UUID(obj.white_user_id.string) ELSE None,
        black_user_id |-> IF obj.black_user_id \notin {null, JSONString("")}
                          THEN UUID(obj.black_user_id.string) ELSE None,
        invite_secret |-> obj.invite_secret,
        next_turn |-> obj.next_turn]

\* an exception leaves the function instead of a value
Raised == [raised |-> TRUE]

\* BoardSquare(file=k[0], rank=k[1]): indexing a text shorter than two
\* characters raises, and so does a file or rank outside the Literal types;
\* characters after the second are never read
square_raises(k) ==
    \/ Len(k) < 2
    \/ k[1] \notin Range(VALID_FILES)
    \/ k[2] \notin Range(VALID_RANKS)

piece_raises(v) ==
    \/ ~({"piece_type", "color"} \subseteq DOMAIN v)
    \/ v.piece_type \notin ChessPieceType
    \/ v.color \notin ChessPieceColor

deserialize_raises(obj) ==
    \/ ~({"game_id", "board", "move_history", "white_user_id", "black_user_id",
          "invite_secret", "next_turn"} \subseteq DOMAIN obj)
    \/ "pieces" \notin DOMAIN obj.board
    \/ \E k \in DOMAIN obj.board.pieces :
           square_raises(k) \/ piece_raises(obj.board.pieces[k])
    \/ \E i \in DOMAIN obj.move_history :
           LET k == obj.move_history[i]
           IN \/ ~({"square_from", "square_to", "chess_piece"} \subseteq DOMAIN k)
              \/ square_raises(k.square_from)
              \/ square_raises(k.square_to)
              \/ piece_raises(k.chess_piece)
    \/ obj.next_turn \notin ChessPieceColor

\* the outcome of a call of deserialize: the game, or an exception
deserialize_call(obj) ==
    IF deserialize_raises(obj) THEN Raised ELSE deserialize(obj)

\* ------------------------------------------------------------------------
\* app/api/responses.py and the response bodies of app/api/v1/chess.py

failure(user_feedback, status_code) ==
    [user_feedback |-> user_feedback, status_code |-> status_code, content |-> None]

success(content) ==
    [user_feedback |-> "", status_code |-> 200, content |-> content]

BoardView(chess_game) ==
    LET pieces == chess_game.board.pieces
    IN [t \in {repr(k) : k \in DOMAIN pieces} |->
            pieces[CHOOSE k \in DOMAIN pieces : repr(k) = t]]

CreateChessGameResponseV1(chess_game) ==
    [game_id |-> chess_game.game_id,
     invite_secret |-> chess_game.invite_secret,
     white_user_id |-> chess_game.white_user_id,
     black_user_id |-> chess_game.black_user_id,
     next_turn |-> chess_game.next_turn,
     move_history |-> chess_game.move_history,
     board |-> BoardView(chess_game)]

JoinChessGameResponseV1(chess_game) ==
    [game_id |-> chess_game.game_id,
     white_user_id |-> chess_game.white_user_id,
     black_user_id |-> chess_game.black_user_id,
     next_turn |-> chess_game.next_turn,
     move_history |-> chess_game.move_history,
     board |-> BoardView(chess_game)]

MovePieceResponseV1(square_from, square_to, chess_piece) ==
    [square_from |-> square_from, square_to |-> square_to, chess_piece |-> chess_piece]

\* the user_feedback texts of the handlers
NotFound == "Could not find a game by that id"
InvalidSecret == "Invalid invite secret"
GameFull == "Game is already full"
AlreadyInGame == "You're already in the game"
InvalidSquareFrom == "Invalid square_from position"
InvalidSquareTo == "Invalid square_to position"
NotAPlayer == "You're not a player in the game"
NoColor == "That piece doesn't belong to you"
NotYourTurn == "It's not your turn"
EmptySquare == "No piece found on that square"
WrongColorPiece == "You can't move the other player's piece"
SquareOccupied == "There's already a piece on that square"
IllegalShape == "Invalid move"

\* ------------------------------------------------------------------------
\* app/api/v1/chess.py: parsing the squares of a move request

\* variant: the rank character is not looked at
convert_input_to_board_square_NoRankCheck(pos) ==
    IF Len(pos) # 2 THEN None
    ELSE IF pos[1] \notin Range(VALID_FILES) THEN None
    ELSE BoardSquare(pos[1], pos[2])

convert_input_to_board_square(pos) ==
    IF Len(pos) # 2 THEN None
    ELSE IF pos[1] \notin Range(VALID_FILES) THEN None
    ELSE IF pos[2] \notin Range(VALID_RANKS) THEN None
    ELSE BoardSquare(pos[1], pos[2])

\* ------------------------------------------------------------------------
\* app/api/v1/chess.py: what join_chess_game does with the game it loaded.
\* saved tells whether update_chess_game is reached.

\* variant: the AlreadyInGame check comes before the GameFull check
JoinBody_AlreadyInGameFirst(chess_game, user_id, invite_secret) ==
    IF chess_game.invite_secret # invite_secret
    THEN [response |-> failure(InvalidSecret, 400), game |-> chess_game, saved |-> FALSE]
    ELSE IF user_id = chess_game.white_user_id \/ user_id = chess_game.black_user_id
    THEN [response |-> failure(AlreadyInGame, 400), game |-> chess_game, saved |-> FALSE]
    ELSE IF chess_game.white_user_id # None /\ chess_game.black_user_id # None
    THEN [response |-> failure(GameFull, 400), game |-> chess_game, saved |-> FALSE]
    ELSE LET joined_game == IF chess_game.white_user_id = None
                            THEN [chess_game EXCEPT !.white_user_id = user_id]
                            ELSE [chess_game EXCEPT !.black_user_id = user_id]
         IN [response |-> success(JoinChessGameResponseV1(joined_game)),
             game |-> joined_game, saved |-> TRUE]

\* variant: the GameFull check is missing
JoinBody_NoFullCheck(chess_game, user_id, invite_secret) ==
    IF chess_game.invite_secret # invite_secret
    THEN [response |-> failure(InvalidSecret, 400), game |-> chess_game, saved |-> FALSE]
    ELSE IF user_id = chess_game.white_user_id \/ user_id = chess_game.black_user_id
    THEN [response |-> failure(AlreadyInGame, 400), game |-> chess_game, saved |-> FALSE]
    ELSE LET joined_game == IF chess_game.white_user_id = None
                            THEN [chess_game EXCEPT !.white_user_id = user_id]
                            ELSE [chess_game EXCEPT !.black_user_id = user_id]
         IN [response |-> success(JoinChessGameResponseV1(joined_game)),
             game |-> joined_game, saved |-> TRUE]

\* variant: the test that picks the slot is inverted
JoinBody_InvertedSlot(chess_game, user_id, invite_secret) ==
    IF chess_game.invite_secret # invite_secret
    THEN [response |-> failure(InvalidSecret, 400), game |-> chess_game, saved |-> FALSE]
    ELSE IF chess_game.white_user_id # None /\ chess_game.black_user_id # None
    THEN [response |-> failure(GameFull, 400), game |-> chess_game, saved |-> FALSE]
    ELSE IF user_id = chess_game.white_user_id \/ user_id = chess_game.black_user_id
    THEN [response |-> failure(AlreadyInGame, 400), game |-> chess_game, saved |-> FALSE]
    ELSE LET joined_game == IF chess_game.white_user_id # None
                            THEN [chess_game EXCEPT !.white_user_id = user_id]
                            ELSE [chess_game EXCEPT !.black_user_id = user_id]
         IN [response |-> success(JoinChessGameResponseV1(joined_game)),
             game |-> joined_game, saved |-> TRUE]

\* variant: the secret is compared after the two slot checks
JoinBody_SecretLast(chess_game, user_id, invite_secret) ==
    IF chess_game.white_user_id # None /\ chess_game.black_user_id # None
    THEN [response |-> failure(GameFull, 400), game |-> chess_game, saved |-> FALSE]
    ELSE IF user_id = chess_game.white_user_id \/ user_id = chess_game.black_user_id
    THEN [response |-> failure(AlreadyInGame, 400), game |-> chess_game, saved |-> FALSE]
    ELSE IF chess_game.invite_secret # invite_secret
    THEN [response |-> failure(InvalidSecret, 400), game |-> chess_game, saved |-> FALSE]
    ELSE LET joined_game == IF chess_game.white_user_id = None
                            THEN [chess_game EXCEPT !.white_user_id = user_id]
                            ELSE [chess_game EXCEPT !.black_user_id = user_id]
         IN [response |-> success(JoinChessGameResponseV1(joined_game)),
             game |-> joined_game, saved |-> TRUE]

\* variant: a user already in a slot is not turned away
JoinBody_NoAlreadyInCheck(chess_game, user_id, invite_secret) ==
    IF chess_game.invite_secret # invite_secret
    THEN [response |-> failure(InvalidSecret, 400), game |-> chess_game, saved |-> FALSE]
    ELSE IF chess_game.white_user_id # None /\ chess_game.black_user_id # None
    THEN [response |-> failure(GameFull, 400), game |-> chess_game, saved |-> FALSE]
    ELSE LET joined_game == IF chess_game.white_user_id = None
                            THEN [chess_game EXCEPT !.white_user_id = user_id]
                            ELSE [chess_game EXCEPT !.black_user_id = user_id]
         IN [response |-> success(JoinChessGameResponseV1(joined_game)),
             game |-> joined_game, saved |-> TRUE]

JoinBody(chess_game, user_id, invite_secret) ==
    IF chess_game.invite_secret # invite_secret
    THEN [response |-> failure(InvalidSecret, 400), game |-> chess_game, saved |-> FALSE]
    ELSE IF chess_game.white_user_id # None /\ chess_game.black_user_id # None
    THEN [response |-> failure(GameFull, 400), game |-> chess_game, saved |-> FALSE]
    ELSE IF user_id = chess_game.white_user_id \/ user_id = chess_game.black_user_id
    THEN [response |-> failure(AlreadyInGame, 400), game |-> chess_game, saved |-> FALSE]
    ELSE LET joined_game == IF chess_game.white_user_id = None
                            THEN [chess_game EXCEPT !.white_user_id = user_id]
                            ELSE [chess_game EXCEPT !.black_user_id = user_id]
         IN [response |-> success(JoinChessGameResponseV1(joined_game)),
             game |-> joined_game, saved |-> TRUE]

\* app/api/v1/chess.py: what play_chess_move does with the game it loaded

\* variant: the destination is looked at before the colour of the piece
PlayBody_OccupiedBeforeColor(chess_game, user_id, square_from, square_to) ==
    LET user_color == get_user_color(chess_game, user_id)
        chess_piece == get_piece_on_square(chess_game.board.pieces, square_from)
        existing_chess_piece_on_new_square ==
            get_piece_on_square(chess_game.board.pieces, square_to)
        move == Move(square_from, square_to, chess_piece)
    IN IF chess_game.white_user_id # user_id /\ chess_game.black_user_id # user_id
       THEN [response |-> failure(NotAPlayer, 403), game |-> chess_game, saved |-> FALSE]
       ELSE IF user_color = NoneColor
       THEN [response |-> failure(NoColor, 403), game |-> chess_game, saved |-> FALSE]
       ELSE IF user_color # chess_game.next_turn
       THEN [response |-> failure(NotYourTurn, 403), game |-> chess_game, saved |-> FALSE]
       ELSE IF chess_piece = None
       THEN [response |-> failure(EmptySquare, 400), game |-> chess_game, saved |-> FALSE]
       ELSE IF existing_chess_piece_on_new_square # None
       THEN [response |-> failure(SquareOccupied, 400), game |-> chess_game, saved |-> FALSE]
       ELSE IF chess_piece.color # user_color
       THEN [response |-> failure(WrongColorPiece, 403), game |-> chess_game, saved |-> FALSE]
       ELSE IF ~can_make_move(chess_piece, move)
       THEN [response |-> failure(IllegalShape, 400), game |-> chess_game, saved |-> FALSE]
       ELSE [response |-> success(MovePieceResponseV1(square_from, square_to, chess_piece)),
             game |-> move_piece(chess_game, move), saved |-> TRUE]

\* variant: the shape is checked before the destination
PlayBody_ShapeBeforeOccupied(chess_game, user_id, square_from, square_to) ==
    LET user_color == get_user_color(chess_game, user_id)
        chess_piece == get_piece_on_square(chess_game.board.pieces, square_from)
        existing_chess_piece_on_new_square ==
            get_piece_on_square(chess_game.board.pieces, square_to)
        move == Move(square_from, square_to, chess_piece)
    IN IF chess_game.white_user_id # user_id /\ chess_game.black_user_id # user_id
       THEN [response |-> failure(NotAPlayer, 403), game |-> chess_game, saved |-> FALSE]
       ELSE IF user_color = NoneColor
       THEN [response |-> failure(NoColor, 403), game |-> chess_game, saved |-> FALSE]
       ELSE IF user_color # chess_game.next_turn
       THEN [response |-> failure(NotYourTurn, 403), game |-> chess_game, saved |-> FALSE]
       ELSE IF chess_piece = None
       THEN [response |-> failure(EmptySquare, 400), game |-> chess_game, saved |-> FALSE]
       ELSE IF chess_piece.color # user_color
       THEN [response |-> failure(WrongColorPiece, 403), game |-> chess_game, saved |-> FALSE]
       ELSE IF ~can_make_move(chess_piece, move)
       THEN [response |-> failure(IllegalShape, 400), game |-> chess_game, saved |-> FALSE]
       ELSE IF existing_chess_piece_on_new_square # None
       THEN [response |-> failure(SquareOccupied, 400), game |-> chess_game, saved |-> FALSE]
       ELSE [response |-> success(MovePieceResponseV1(square_from, square_to, chess_piece)),
             game |-> move_piece(chess_game, move), saved |-> TRUE]

\* variant: the move is applied and saved before its shape is checked
PlayBody_SaveBeforeShape(chess_game, user_id, square_from, square_to) ==
    LET user_color == get_user_color(chess_game, user_id)
        chess_piece == get_piece_on_square(chess_game.board.pieces, square_from)
        existing_chess_piece_on_new_square ==
            get_piece_on_square(chess_game.board.pieces, square_to)
        move == Move(square_from, square_to, chess_piece)
    IN IF chess_game.white_user_id # user_id /\ chess_game.black_user_id # user_id
       THEN [response |-> failure(NotAPlayer, 403), game |-> chess_game, saved |-> FALSE]
       ELSE IF user_color = NoneColor
       THEN [response |-> failure(NoColor, 403), game |-> chess_game, saved |-> FALSE]
       ELSE IF user_color # chess_game.next_turn
       THEN [response |-> failure(NotYourTurn, 403), game |-> chess_game, saved |-> FALSE]
       ELSE IF chess_piece = None
       THEN [response |-> failure(EmptySquare, 400), game |-> chess_game, saved |-> FALSE]
       ELSE IF chess_piece.color # user_color
       THEN [response |-> failure(WrongColorPiece, 403), game |-> chess_game, saved |-> FALSE]
       ELSE IF existing_chess_piece_on_new_square # None
       THEN [response |-> failure(SquareOccupied, 400), game |-> chess_game, saved |-> FALSE]
       ELSE IF ~can_make_move(chess_piece, move)
       THEN [response |-> failure(IllegalShape, 400),
             game |-> move_piece(chess_game, move), saved |-> TRUE]
       ELSE [response |-> success(MovePieceResponseV1(square_from, square_to, chess_piece)),
             game |-> move_piece(chess_game, move), saved |-> TRUE]

\* the squares a piece going in a straight line from one square to another
\* passes over
squares_between(square_from, square_to) ==
    {sq \in AllSquares \ {square_from, square_to} :
        LET fx == ord(square_from.file)
            fy == int(square_from.rank)
            tx == ord(square_to.file)
            ty == int(square_to.rank)
            sx == ord(sq.file)
            sy == int(sq.rank)
        IN /\ (sx - fx) * (ty - fy) = (sy - fy) * (tx - fx)
           /\ abs(sx - fx) + abs(tx - sx) = abs(tx - fx)
           /\ abs(sy - fy) + abs(ty - sy) = abs(ty - fy)}

\* variant: a piece standing between the two squares stops the move
PlayBody_PathBlocked(chess_game, user_id, square_from, square_to) ==
    LET user_color == get_user_color(chess_game, user_id)
        chess_piece == get_piece_on_square(chess_game.board.pieces, square_from)
        existing_chess_piece_on_new_square ==
            get_piece_on_square(chess_game.board.pieces, square_to)
        move == Move(square_from, square_to, chess_piece)
    IN IF chess_game.white_user_id # user_id /\ chess_game.black_user_id # user_id
       THEN [response |-> failure(NotAPlayer, 403), game |-> chess_game, saved |-> FALSE]
       ELSE IF user_color = NoneColor
       THEN [response |-> failure(NoColor, 403), game |-> chess_game, saved |-> FALSE]
       ELSE IF user_color # chess_game.next_turn
       THEN [response |-> failure(NotYourTurn, 403), game |-> chess_game, saved |-> FALSE]
       ELSE IF chess_piece = None
       THEN [response |-> failure(EmptySquare, 400), game |-> chess_game, saved |-> FALSE]
       ELSE IF chess_piece.color # user_color
       THEN [response |-> failure(WrongColorPiece, 403), game |-> chess_game, saved |-> FALSE]
       ELSE IF existing_chess_piece_on_new_square # None
       THEN [response |-> failure(SquareOccupied, 400), game |-> chess_game, saved |-> FALSE]
       ELSE IF \E sq \in squares_between(square_from, square_to) :
                   is_square_occupied(chess_game.board.pieces, sq)
       THEN [response |-> failure(IllegalShape, 400), game |-> chess_game, saved |-> FALSE]
       ELSE IF ~can_make_move(chess_piece, move)
       THEN [response |-> failure(IllegalShape, 400), game |-> chess_game, saved |-> FALSE]
       ELSE [response |-> success(MovePieceResponseV1(square_from, square_to, chess_piece)),
             game |-> move_piece(chess_game, move), saved |-> TRUE]

\* variant: the destination square is not looked at
PlayBody_NoOccupiedCheck(chess_game, user_id, square_from, square_to) ==
    LET user_color == get_user_color(chess_game, user_id)
        chess_piece == get_piece_on_square(chess_game.board.pieces, square_from)
        existing_chess_piece_on_new_square ==
            get_piece_on_square(chess_game.board.pieces, square_to)
        move == Move(square_from, square_to, chess_piece)
    IN IF chess_game.white_user_id # user_id /\ chess_game.black_user_id # user_id
       THEN [response |-> failure(NotAPlayer, 403), game |-> chess_game, saved |-> FALSE]
       ELSE IF user_color = NoneColor
       THEN [response |-> failure(NoColor, 403), game |-> chess_game, saved |-> FALSE]
       ELSE IF user_color # chess_game.next_turn
       THEN [response |-> failure(NotYourTurn, 403), game |-> chess_game, saved |-> FALSE]
       ELSE IF chess_piece = None
       THEN [response |-> failure(EmptySquare, 400), game |-> chess_game, saved |-> FALSE]
       ELSE IF chess_piece.color # user_color
       THEN [response |-> failure(WrongColorPiece, 403), game |-> chess_game, saved |-> FALSE]
       ELSE IF ~can_make_move(chess_piece, move)
       THEN [response |-> failure(IllegalShape, 400), game |-> chess_game, saved |-> FALSE]
       ELSE [response |-> success(MovePieceResponseV1(square_from, square_to, chess_piece)),
             game |-> move_piece(chess_game, move), saved |-> TRUE]

PlayBody(chess_game, user_id, square_from, square_to) ==
    LET user_color == get_user_color(chess_game, user_id)
        chess_piece == get_piece_on_square(chess_game.board.pieces, square_from)
        existing_chess_piece_on_new_square ==
            get_piece_on_square(chess_game.board.pieces, square_to)
        move == Move(square_from, square_to, chess_piece)
    IN IF chess_game.white_user_id # user_id /\ chess_game.black_user_id # user_id
       THEN [response |-> failure(NotAPlayer, 403), game |-> chess_game, saved |-> FALSE]
       ELSE IF user_color = NoneColor
       THEN [response |-> failure(NoColor, 403), game |-> chess_game, saved |-> FALSE]
       ELSE IF user_color # chess_game.next_turn
       THEN [response |-> failure(NotYourTurn, 403), game |-> chess_game, saved |-> FALSE]
       ELSE IF chess_piece = None
       THEN [response |-> failure(EmptySquare, 400), game |-> chess_game, saved |-> FALSE]
       ELSE IF chess_piece.color # user_color
       THEN [response |-> failure(WrongColorPiece, 403), game |-> chess_game, saved |-> FALSE]
       ELSE IF existing_chess_piece_on_new_square # None
       THEN [response |-> failure(SquareOccupied, 400), game |-> chess_game, saved |-> FALSE]
       ELSE IF ~can_make_move(chess_piece, move)
       THEN [response |-> failure(IllegalShape, 400), game |-> chess_game, saved |-> FALSE]
       ELSE [response |-> success(MovePieceResponseV1(square_from, square_to, chess_piece)),
             game |-> move_piece(chess_game, move), saved |-> TRUE]

\* ------------------------------------------------------------------------
\* State

VARIABLES
    store,  \* the value under the game's key in the store: None or the bytes
    reqs,   \* per request slot: where the handler stands, the game it holds,
            \* and once it has answered, the request's inputs and the response
    acked,  \* the moves reported as applied, in the order of the responses
    joined, \* the users whose join was reported as a success
    call,   \* a function called on its own: its name, its argument and,
            \* once it has returned, its result
    accounts, \* the values under the account keys of the store
    signup  \* the create_account request: where its handler stands, its
            \* inputs, the account it looked up and its response

vars == <<store, reqs, acked, joined, call, accounts, signup>>

NoCall == [fn |-> "none"]

\* no account key is set
NoAccounts == [key \in {} |-> None]

NoSignup ==
    [pc |-> "idle", username |-> "", password |-> "", account |-> None,
     response |-> failure("", 0)]

Idle ==
    [pc |-> "idle", kind |-> "none", game |-> None, user |-> None,
     desired_color |-> NoneColor, invite_secret |-> "", square_from |-> << >>, square_to |-> << >>,
     response |-> failure("", 0)]

Init ==
    /\ store = None
    /\ reqs = [r \in Reqs |-> Idle]
    /\ acked = << >>
    /\ joined = {}
    /\ accounts = NoAccounts
    /\ signup = NoSignup
    /\ call = NoCall

\* the game id is known to nobody before create_chess_game has answered
GameKnown == store # None /\ \A r \in Reqs : reqs[r].pc # "created"

\* A response is handed over before any handler takes its next step: the
\* hand-over touches nothing shared, so no interleaving of the reads and
\* writes of the store is lost.
NoneDone == \A r \in Reqs : reqs[r].pc # "done"

Return(r) ==
    /\ reqs[r].pc = "done"
    /\ reqs' = [reqs EXCEPT ![r] = Idle]
    /\ UNCHANGED <<store, acked, joined, call, accounts, signup>>

\* ------------------------------------------------------------------------
\* create_chess_game: the repository writes the new game with an empty
\* board, then the handler resets the board and writes the game again

CreateBegin(r) ==
    /\ NoneDone
    /\ reqs[r].pc = "idle"
    /\ store = None
    /\ \E user_id \in Creators, desired_color \in ChessPieceColor,
          secret \in GeneratedSecrets :
        LET white_user_id == IF desired_color = WHITE THEN user_id ELSE None
            black_user_id == IF desired_color = WHITE THEN None ELSE user_id
            chess_game == ChessGame(white_user_id, black_user_id, secret)
        IN /\ store' = serialize(chess_game)
           /\ reqs' = [reqs EXCEPT ![r] = [Idle EXCEPT !.pc = "created",
                                                       !.kind = "create",
                                                       !.user = user_id,
                                                       !.desired_color = desired_color,
                                                       !.game = chess_game]]
    /\ UNCHANGED <<acked, joined, call, accounts, signup>>

CreateFinish(r) ==
    /\ NoneDone
    /\ reqs[r].pc = "created"
    /\ LET chess_game == [reqs[r].game EXCEPT
                             !.board = [pieces |-> reset_to_starting_position(@.pieces)]]
       IN /\ store' = serialize(chess_game)
          /\ reqs' = [reqs EXCEPT ![r] =
                 [@ EXCEPT !.pc = "done",
                           !.response = success(CreateChessGameResponseV1(chess_game))]]
    /\ UNCHANGED <<acked, joined, call, accounts, signup>>

\* ------------------------------------------------------------------------
\* join_chess_game: load, then check, fill a slot and save.  The user and
\* the secret of the request are not looked at before the load, so they are
\* drawn where the handler first reads them.

JoinLoad(r) ==
    /\ NoneDone
    /\ reqs[r].pc = "idle"
    /\ reqs' = [reqs EXCEPT ![r] =
           IF GameKnown
           THEN [Idle EXCEPT !.pc = "loaded", !.kind = "join",
                             !.game = deserialize(store)]
           ELSE [Idle EXCEPT !.pc = "done", !.kind = "join",
                             !.response = failure(NotFound, 404)]]
    /\ UNCHANGED <<store, acked, joined, call, accounts, signup>>

JoinFinish(r) ==
    /\ NoneDone
    /\ reqs[r].pc = "loaded"
    /\ reqs[r].kind = "join"
    /\ \E user_id \in Users, invite_secret \in Secrets :
        LET out == JoinBody(reqs[r].game, user_id, invite_secret)
        IN /\ store' = IF out.saved THEN serialize(out.game) ELSE store
           /\ joined' = IF out.saved THEN joined \cup {user_id} ELSE joined
           /\ reqs' = [reqs EXCEPT ![r] =
                  [@ EXCEPT !.pc = "done",
                            !.user = user_id,
                            !.invite_secret = invite_secret,
                            !.response = out.response]]
    /\ UNCHANGED <<acked, call, accounts, signup>>

\* ------------------------------------------------------------------------
\* play_chess_move: parse the squares, load, then check, move and save.
\* A request whose squares parse does not look at them again, nor at its
\* user, before the load, so they are drawn where the handler reads them.

InputTexts(squares) == squares \cup BadTexts

PlayInvalidSquare(r, squares) ==
    /\ NoneDone
    /\ reqs[r].pc = "idle"
    /\ \E square_from \in InputTexts(squares), square_to \in InputTexts(squares) :
        /\ \/ convert_input_to_board_square(square_from) = None
           \/ convert_input_to_board_square(square_to) = None
        /\ reqs' = [reqs EXCEPT ![r] =
               [Idle EXCEPT !.pc = "done",
                            !.kind = "move",
                            !.square_from = square_from,
                            !.square_to = square_to,
                            !.response =
                                IF convert_input_to_board_square(square_from) = None
                                THEN failure(InvalidSquareFrom, 400)
                                ELSE failure(InvalidSquareTo, 400)]]
    /\ UNCHANGED <<store, acked, joined, call, accounts, signup>>

PlayLoad(r) ==
    /\ NoneDone
    /\ reqs[r].pc = "idle"
    /\ reqs' = [reqs EXCEPT ![r] =
           IF GameKnown
           THEN [Idle EXCEPT !.pc = "loaded", !.kind = "move",
                             !.game = deserialize(store)]
           ELSE [Idle EXCEPT !.pc = "done", !.kind = "move",
                             !.response = failure(NotFound, 404)]]
    /\ UNCHANGED <<store, acked, joined, call, accounts, signup>>

PlayFinish(r, squares) ==
    /\ NoneDone
    /\ reqs[r].pc = "loaded"
    /\ reqs[r].kind = "move"
    /\ \E user_id \in Users, from_text \in squares, to_text \in squares :
        LET square_from == convert_input_to_board_square(from_text)
            square_to == convert_input_to_board_square(to_text)
            out == PlayBody(reqs[r].game, user_id, square_from, square_to)
        IN /\ out.saved => Len(acked) < MaxMoves
           /\ store' = IF out.saved THEN serialize(out.game) ELSE store
           /\ acked' = IF out.saved THEN Append(acked, out.response.content) ELSE acked
           /\ reqs' = [reqs EXCEPT ![r] =
                  [@ EXCEPT !.pc = "done",
                            !.user = user_id,
                            !.square_from = from_text,
                            !.square_to = to_text,
                            !.response = out.response]]
    /\ UNCHANGED <<joined, call, accounts, signup>>

\* ------------------------------------------------------------------------
\* Specifications

\* requests race
Next ==
    \E r \in Reqs :
        \/ CreateBegin(r)
        \/ CreateFinish(r)
        \/ JoinLoad(r)
        \/ JoinFinish(r)
        \/ PlayInvalidSquare(r, ConcSquares)
        \/ PlayLoad(r)
        \/ PlayFinish(r, ConcSquares)
        \/ Return(r)

Spec == Init /\ [][Next]_vars

\* one request at a time
SeqNext ==
    \E r \in SeqReqs :
        \/ CreateBegin(r)
        \/ CreateFinish(r)
        \/ JoinLoad(r)
        \/ JoinFinish(r)
        \/ PlayInvalidSquare(r, SeqSquares)
        \/ PlayLoad(r)
        \/ PlayFinish(r, SeqSquares)
        \/ Return(r)

SeqSpec == Init /\ [][SeqNext]_vars

\* ------------------------------------------------------------------------
\* Functions called on their own, on arguments no handler would pass

CallOf(fn, arg) == [fn |-> fn, arg |-> arg, returned |-> FALSE, result |-> None]

\* two stored games, and what a damaged store could hold in their place
FreshGame ==
    [ChessGame(UUID("u1"), None, "s1") EXCEPT
        !.board = [pieces |-> reset_to_starting_position(@.pieces)]]

MovedGame ==
    move_piece([FreshGame EXCEPT !.black_user_id = UUID("u2")],
               Move(BoardSquare("E", "2"), BoardSquare("E", "4"),
                    ChessPiece(PAWN, WHITE)))

Without(rec, field) == [x \in DOMAIN rec \ {field} |-> rec[x]]

WithKey(pieces, k, t) ==
    [x \in (DOMAIN pieces \ {k}) \cup {t} |-> IF x = t THEN pieces[k] ELSE pieces[x]]

\* texts that are not the text of the square k: too short, characters
\* swapped, outside A..H and 1..8, lower case, and too long
OddTexts(k) ==
    {<< >>, <<k[1]>>, <<k[2], k[1]>>, <<k[1], "9">>, <<"I", k[2]>>,
     <<"e", k[2]>>, k \o <<"2">>, k \o <<"x">>}

OddPieces(v) ==
    {[v EXCEPT !.piece_type = "DRAGON"], [v EXCEPT !.color = "GREEN"],
     Without(v, "piece_type"), Without(v, "color")}

Damaged(obj) ==
    {Without(obj, f) : f \in DOMAIN obj}
    \cup {[obj EXCEPT !.board = Without(@, "pieces")],
          [obj EXCEPT !.next_turn = "GREEN"]}
    \cup UNION {{[obj EXCEPT !.board.pieces = WithKey(@, k, t)] : t \in OddTexts(k)} :
                   k \in DOMAIN obj.board.pieces}
    \cup UNION {{[obj EXCEPT !.board.pieces[k] = v] : v \in OddPieces(obj.board.pieces[k])} :
                   k \in DOMAIN obj.board.pieces}
    \cup UNION {{[obj EXCEPT !.move_history[i].square_from = t] :
                    t \in OddTexts(obj.move_history[i].square_from)} :
                   i \in DOMAIN obj.move_history}
    \cup UNION {{[obj EXCEPT !.move_history[i].square_to = t] :
                    t \in OddTexts(obj.move_history[i].square_to)} :
                   i \in DOMAIN obj.move_history}
    \cup UNION {{[obj EXCEPT !.move_history[i].chess_piece = v] :
                    v \in OddPieces(obj.move_history[i].chess_piece)} :
                   i \in DOMAIN obj.move_history}
    \cup {[obj EXCEPT !.move_history[i] = Without(@, f)] :
             i \in DOMAIN obj.move_history,
             f \in {"square_from", "square_to", "chess_piece"}}

DeserializeArgs ==
    {serialize(FreshGame), serialize(MovedGame)}
    \cup Damaged(serialize(FreshGame)) \cup Damaged(serialize(MovedGame))

CallDeserialize ==
    /\ call.fn = "deserialize"
    /\ ~call.returned
    /\ call' = [call EXCEPT !.returned = TRUE,
                            !.result = deserialize_call(call.arg)]
    /\ UNCHANGED <<store, reqs, acked, joined, accounts, signup>>

\* the texts of the 64 squares, and every text of up to MaxText characters
\* drawn from letters and digits inside and outside A..H and 1..8
MaxText == 3
TextChars == {"A", "E", "H", "I", "a", "h", "0", "1", "2", "8", "9"}

ConvertArgs ==
    {repr(sq) : sq \in AllSquares}
    \cup UNION {[1..n -> TextChars] : n \in 0..MaxText}

CallConvert ==
    /\ call.fn = "convert_input_to_board_square"
    /\ ~call.returned
    /\ call' = [call EXCEPT !.returned = TRUE,
                            !.result = convert_input_to_board_square(call.arg)]
    /\ UNCHANGED <<store, reqs, acked, joined, accounts, signup>>

\* boards before a reset: empty, the starting position, a game under way,
\* and every board of one piece
ResetArgs ==
    {EmptyPieces, FreshGame.board.pieces, MovedGame.board.pieces}
    \cup {set_piece(EmptyPieces, sq, ChessPiece(t, c)) :
              sq \in AllSquares, t \in ChessPieceType, c \in ChessPieceColor}

CallReset ==
    /\ call.fn = "reset_to_starting_position"
    /\ ~call.returned
    /\ call' = [call EXCEPT !.returned = TRUE,
                            !.result = reset_to_starting_position(call.arg)]
    /\ UNCHANGED <<store, reqs, acked, joined, accounts, signup>>

\* pairs of games with the same players and the same turn, whose boards are
\* the starting position with at most one piece taken off or put on; a
\* mover; and two squares
PlayBoards ==
    {FreshGame.board.pieces}
    \cup {remove_piece(FreshGame.board.pieces, sq) :
              sq \in {BoardSquare("A", "2"), BoardSquare("D", "2"), BoardSquare("A", "7")}}
    \cup {set_piece(FreshGame.board.pieces, sq, ChessPiece(KNIGHT, BLACK)) :
              sq \in {BoardSquare("E", "3"), BoardSquare("H", "5")}}

PlaySquares ==
    {BoardSquare("A", "1"), BoardSquare("A", "3"), BoardSquare("C", "1"),
     BoardSquare("E", "3"), BoardSquare("D", "1"), BoardSquare("D", "3"),
     BoardSquare("E", "2"), BoardSquare("E", "4"), BoardSquare("A", "8"),
     BoardSquare("A", "6")}

PlayGames ==
    {[FreshGame EXCEPT !.black_user_id = UUID("u2"),
                       !.board = [pieces |-> pieces],
                       !.next_turn = next_turn] :
        pieces \in PlayBoards, next_turn \in ChessPieceColor}

PlayArgs ==
    UNION {{[game1 |-> game1, game2 |-> game2, user_id |-> user_id,
             square_from |-> square_from, square_to |-> square_to] :
               game2 \in {g \in PlayGames : g.next_turn = game1.next_turn},
               user_id \in Users, square_from \in PlaySquares,
               square_to \in PlaySquares} :
           game1 \in PlayGames}

Answer(out) == [response |-> out.response, saved |-> out.saved]

CallPlay ==
    /\ call.fn = "play_chess_move"
    /\ ~call.returned
    /\ call' = [call EXCEPT
           !.returned = TRUE,
           !.result =
               <<Answer(PlayBody(call.arg.game1, call.arg.user_id,
                                 call.arg.square_from, call.arg.square_to)),
                 Answer(PlayBody(call.arg.game2, call.arg.user_id,
                                 call.arg.square_from, call.arg.square_to))>>]
    /\ UNCHANGED <<store, reqs, acked, joined, accounts, signup>>

CallArgs ==
    {CallOf("deserialize", arg) : arg \in DeserializeArgs}
    \cup {CallOf("play_chess_move", arg) : arg \in PlayArgs}
    \cup {CallOf("reset_to_starting_position", arg) : arg \in ResetArgs}
    \cup {CallOf("convert_input_to_board_square", arg) : arg \in ConvertArgs}

CallInit ==
    /\ store = None
    /\ reqs = [r \in Reqs |-> Idle]
    /\ acked = << >>
    /\ joined = {}
    /\ accounts = NoAccounts
    /\ signup = NoSignup
    /\ call \in CallArgs

CallNext ==
    \/ CallDeserialize
    \/ CallConvert
    \/ CallReset
    \/ CallPlay

CallSpec == CallInit /\ [][CallNext]_vars

\* ------------------------------------------------------------------------
\* can_make_move called on every piece and every pair of squares

ShapeArgs ==
    {[piece |-> ChessPiece(t, c), square_from |-> square_from,
      square_to |-> square_to] :
        t \in ChessPieceType, c \in ChessPieceColor,
        square_from \in AllSquares, square_to \in AllSquares}

CallCanMakeMove ==
    /\ call.fn = "can_make_move"
    /\ ~call.returned
    /\ call' = [call EXCEPT
           !.returned = TRUE,
           !.result = can_make_move(call.arg.piece,
                                    Move(call.arg.square_from, call.arg.square_to,
                                         call.arg.piece))]
    /\ UNCHANGED <<store, reqs, acked, joined, accounts, signup>>

ShapeInit ==
    /\ store = None
    /\ reqs = [r \in Reqs |-> Idle]
    /\ acked = << >>
    /\ joined = {}
    /\ accounts = NoAccounts
    /\ signup = NoSignup
    /\ call \in {CallOf("can_make_move", arg) : arg \in ShapeArgs}

ShapeNext == CallCanMakeMove

ShapeSpec == ShapeInit /\ [][ShapeNext]_vars

\* ------------------------------------------------------------------------
\* app/repositories/accounts.py and app/api/v1/accounts.py: accounts

\* the ids uuid4() hands out to accounts
AccountIds == {UUID("a1"), UUID("a2"), UUID("a3")}

\* the usernames asked for; one of them is the text of an account id
Usernames == {"alice", "bob", "a1"}
Passwords == {"pw"}

UsernameExists == "Username already exists"

\* the salt of bcrypt plays no part here
hash_password(password) == [bcrypt |-> password]

Account(user_id, username, hashed_password) ==
    [user_id |-> user_id, username |-> username, hashed_password |-> hashed_password]

model_dump_json(account) ==
    [user_id |-> str(account.user_id), username |-> account.username,
     hashed_password |-> account.hashed_password]

model_validate_json(account_data) ==
    Account(UUID(account_data.user_id), account_data.username,
            account_data.hashed_password)

\* the key f"account:{text}"
account_key(text) == <<"account:", text>>

create_account(keys, user_id, username, hashed_password) ==
    LET account == Account(user_id, username, hashed_password)
        key == account_key(str(account.user_id))
    IN [k \in DOMAIN keys \cup {key} |->
           IF k = key THEN model_dump_json(account) ELSE keys[k]]

get_account_by_username(keys, username) ==
    IF account_key(username) \in DOMAIN keys
    THEN model_validate_json(keys[account_key(username)])
    ELSE None

CreateAccountResponseV1(account) == [user_id |-> account.user_id]

\* uuid4() never hands out an id twice
UnusedAccountIds == {id \in AccountIds : account_key(str(id)) \notin DOMAIN accounts}

CreateAccountLoad ==
    /\ signup.pc = "idle"
    /\ UnusedAccountIds # {}
    /\ \E username \in Usernames, password \in Passwords :
        signup' = [NoSignup EXCEPT
                      !.pc = "loaded",
                      !.username = username,
                      !.password = password,
                      !.account = get_account_by_username(accounts, username)]
    /\ UNCHANGED <<store, reqs, acked, joined, call, accounts>>

CreateAccountFinish ==
    /\ signup.pc = "loaded"
    /\ IF signup.account # None
       THEN /\ signup' = [signup EXCEPT !.pc = "done",
                                        !.response = failure(UsernameExists, 400)]
            /\ accounts' = accounts
       ELSE \E user_id \in UnusedAccountIds :
            LET hashed_password == hash_password(signup.password)
                account == Account(user_id, signup.username, hashed_password)
            IN /\ accounts' = create_account(accounts, user_id, signup.username,
                                             hashed_password)
               /\ signup' = [signup EXCEPT
                      !.pc = "done",
                      !.response = success(CreateAccountResponseV1(account))]
    /\ UNCHANGED <<store, reqs, acked, joined, call>>

CreateAccountReturn ==
    /\ signup.pc = "done"
    /\ signup' = NoSignup
    /\ UNCHANGED <<store, reqs, acked, joined, call, accounts>>

AccountNext ==
    \/ CreateAccountLoad
    \/ CreateAccountFinish
    \/ CreateAccountReturn

AccountSpec == Init /\ [][AccountNext]_vars

\* ------------------------------------------------------------------------
\* Vocabulary of the properties

Done(r) == reqs[r].pc = "done"

\* the game a request loaded, before its handler changed anything
Loaded(r) == reqs[r].game

\* the game as a request would load it now
Persisted == deserialize(store)

Quiet == \A r \in Reqs : reqs[r].pc \in {"idle", "done"}

Succeeded(r) == reqs[r].response.status_code = 200

Feedback(r) == reqs[r].response.user_feedback

DoneJoin(r) == Done(r) /\ reqs[r].kind = "join" /\ Loaded(r) # None

\* a move request that reached the checks: both squares parsed, game found
DoneMove(r) == Done(r) /\ reqs[r].kind = "move" /\ Loaded(r) # None

From(r) == convert_input_to_board_square(reqs[r].square_from)
To(r) == convert_input_to_board_square(reqs[r].square_to)

SlotsOf(game) == {game.white_user_id, game.black_user_id} \ {None}

BothFilled(game) == game.white_user_id # None /\ game.black_user_id # None

Other(color) == IF color = WHITE THEN BLACK ELSE WHITE

\* ------------------------------------------------------------------------
\* the moves reported as applied are all in the persisted move_history
AckedArePersisted ==
    \A i \in DOMAIN acked :
        \E j \in DOMAIN Persisted.move_history :
            Persisted.move_history[j] = acked[i]

\* the step in which request r finishes a move
PlayFinishes(r) ==
    /\ reqs[r].pc = "loaded"
    /\ reqs[r].kind = "move"
    /\ reqs'[r].pc = "done"

\* C1: two move requests on the game never both apply against the same
\* loaded state: when a move request is answered with a success, every
\* move reported as a success so far, the new one included, is in the
\* persisted move_history (none is lost to the save of the other).
C1_NoLostUpdate ==
    [][\A r \in Reqs :
        (PlayFinishes(r) /\ reqs'[r].response.status_code = 200 /\ AckedArePersisted)
            => AckedArePersisted']_vars

\* ------------------------------------------------------------------------
\* the second join of a user whose first join succeeded, with the right secret
SecondJoin(r) ==
    /\ DoneJoin(r)
    /\ reqs[r].user \in joined
    /\ reqs[r].user \in SlotsOf(Loaded(r))
    /\ reqs[r].invite_secret = Loaded(r).invite_secret

\* C2 as stated: the second join of a user whose first join succeeded fails
\* with AlreadyInGame.
C2_SecondJoinAlreadyInGame ==
    \A r \in Reqs : SecondJoin(r) => Feedback(r) = AlreadyInGame

\* C2 amended: the second join of a user whose first join succeeded fails
\* with GameFull (both slots are filled by then, and that check comes
\* before the AlreadyInGame check), and the persisted game stays as loaded.
C2_SecondJoinGameFull ==
    \A r \in Reqs :
        SecondJoin(r) =>
            /\ Feedback(r) = GameFull
            /\ reqs[r].response.status_code = 400
            /\ Persisted = Loaded(r)

C2_Witness == \E r \in Reqs : SecondJoin(r) /\ ~Succeeded(r)

\* ------------------------------------------------------------------------
\* a join with the right secret on a game whose two slots are filled
JoinOnFull(r) ==
    /\ DoneJoin(r)
    /\ BothFilled(Loaded(r))
    /\ reqs[r].invite_secret = Loaded(r).invite_secret

\* C3: a join with the right secret on a full game fails with GameFull,
\* whoever joins, and both slots stay as they were.
C3_FullGameRejectsEveryone ==
    \A r \in Reqs :
        JoinOnFull(r) =>
            /\ Feedback(r) = GameFull
            /\ Persisted.white_user_id = Loaded(r).white_user_id
            /\ Persisted.black_user_id = Loaded(r).black_user_id

\* a current player is told GameFull, not AlreadyInGame
C3_Witness ==
    \E r \in Reqs :
        /\ JoinOnFull(r)
        /\ reqs[r].user \in SlotsOf(Loaded(r))
        /\ Feedback(r) = GameFull

\* ------------------------------------------------------------------------
\* a join with the right secret, by a user in neither slot, on a game with
\* exactly one empty slot
JoinOnOpen(r) ==
    /\ DoneJoin(r)
    /\ reqs[r].invite_secret = Loaded(r).invite_secret
    /\ reqs[r].user \notin SlotsOf(Loaded(r))
    /\ Cardinality(SlotsOf(Loaded(r))) = 1

\* C4: such a join succeeds and changes exactly the empty slot (white if
\* white is empty, otherwise black) to the joining user; nothing else of
\* the game changes.
C4_JoinFillsTheEmptySlot ==
    \A r \in Reqs :
        JoinOnOpen(r) =>
            /\ Succeeded(r)
            /\ Persisted =
                   IF Loaded(r).white_user_id = None
                   THEN [Loaded(r) EXCEPT !.white_user_id = reqs[r].user]
                   ELSE [Loaded(r) EXCEPT !.black_user_id = reqs[r].user]
            /\ Cardinality(SlotsOf(Persisted)) = 2

C4_Witness ==
    \E r \in Reqs :
        /\ JoinOnOpen(r)
        /\ Loaded(r).white_user_id # None
        /\ Persisted.black_user_id = reqs[r].user

\* ------------------------------------------------------------------------
\* the step in which request r finishes a join
JoinFinishes(r) ==
    /\ reqs[r].pc = "loaded"
    /\ reqs[r].kind = "join"
    /\ reqs'[r].pc = "done"

\* C5: a join with a wrong secret fails with InvalidSecret whatever the
\* slots hold and whoever joins, and a failed join writes nothing.
C5_FailedJoinWritesNothing ==
    [][\A r \in Reqs :
        JoinFinishes(r) =>
            /\ reqs'[r].invite_secret # reqs[r].game.invite_secret =>
                   reqs'[r].response = failure(InvalidSecret, 400)
            /\ reqs'[r].response.user_feedback \in {InvalidSecret, GameFull, AlreadyInGame} =>
                   store' = store]_vars

\* a wrong secret on a full game, sent by one of its players
C5_Witness ==
    \E r \in Reqs :
        /\ DoneJoin(r)
        /\ reqs[r].invite_secret # Loaded(r).invite_secret
        /\ BothFilled(Loaded(r))
        /\ reqs[r].user \in SlotsOf(Loaded(r))
        /\ Feedback(r) = InvalidSecret
        /\ Persisted = Loaded(r)

\* ------------------------------------------------------------------------
\* The six checks of a move, each as the condition that violates it, on the
\* game the request loaded

MoverColor(r) == get_user_color(Loaded(r), reqs[r].user)

PieceOn(game, square) == game.board.pieces[square]

Occupied(game, square) == square \in DOMAIN game.board.pieces

ViolatesPlayer(r) == reqs[r].user \notin SlotsOf(Loaded(r))

ViolatesTurn(r) == MoverColor(r) # Loaded(r).next_turn

ViolatesPiece(r) == ~Occupied(Loaded(r), From(r))

ViolatesColor(r) ==
    Occupied(Loaded(r), From(r)) /\ PieceOn(Loaded(r), From(r)).color # MoverColor(r)

ViolatesDestination(r) == Occupied(Loaded(r), To(r))

ViolatesShape(r) ==
    /\ Occupied(Loaded(r), From(r))
    /\ ~can_make_move(PieceOn(Loaded(r), From(r)),
                      Move(From(r), To(r), PieceOn(Loaded(r), From(r))))

EarliestViolated(r) ==
    IF ViolatesPlayer(r) THEN NotAPlayer
    ELSE IF ViolatesTurn(r) THEN NotYourTurn
    ELSE IF ViolatesPiece(r) THEN EmptySquare
    ELSE IF ViolatesColor(r) THEN WrongColorPiece
    ELSE IF ViolatesDestination(r) THEN SquareOccupied
    ELSE IF ViolatesShape(r) THEN IllegalShape
    ELSE ""

SixFailures ==
    {NotAPlayer, NotYourTurn, EmptySquare, WrongColorPiece, SquareOccupied, IllegalShape}

\* C6: a move request with two valid squares is answered with the failure
\* of the earliest violated check, in the order NotAPlayer, NotYourTurn,
\* EmptySquare, WrongColorPiece, SquareOccupied, IllegalShape, and succeeds
\* exactly when none of the six is violated.
C6_EarliestViolatedCheckWins ==
    \A r \in Reqs :
        DoneMove(r) =>
            /\ Feedback(r) = EarliestViolated(r)
            /\ Succeeded(r) <=> EarliestViolated(r) = ""

\* three checks violated at once, the earliest of them reported
C6_Witness ==
    \E r \in Reqs :
        /\ DoneMove(r)
        /\ ViolatesColor(r) /\ ViolatesDestination(r) /\ ViolatesShape(r)
        /\ Feedback(r) = WrongColorPiece

\* ------------------------------------------------------------------------
\* C7: a move request that fails with one of the six failures leaves the
\* persisted game (board, move_history, next_turn, slots, game_id,
\* invite_secret) as it was.
C7_FailedMoveHasNoEffect ==
    [][\A r \in Reqs :
        (PlayFinishes(r) /\ reqs'[r].response.user_feedback \in SixFailures)
            => store' = store]_vars

C7_Witness ==
    \E r \in Reqs :
        /\ DoneMove(r)
        /\ Feedback(r) = IllegalShape
        /\ Persisted = Loaded(r)

\* ------------------------------------------------------------------------
\* C8: a successful move empties `from`, puts on `to` the piece that stood
\* on `from`, leaves every other square alone, appends exactly the Move
\* (from, to, piece) to move_history, flips next_turn, returns that Move and
\* leaves the slots, game_id and invite_secret alone.
C8_SuccessfulMoveEffect ==
    \A r \in Reqs :
        (DoneMove(r) /\ Succeeded(r)) =>
            LET before == Loaded(r)
                piece == PieceOn(before, From(r))
            IN /\ ~Occupied(Persisted, From(r))
               /\ Occupied(Persisted, To(r))
               /\ PieceOn(Persisted, To(r)) = piece
               /\ \A sq \in AllSquares \ {From(r), To(r)} :
                      /\ Occupied(Persisted, sq) <=> Occupied(before, sq)
                      /\ Occupied(before, sq) => PieceOn(Persisted, sq) = PieceOn(before, sq)
               /\ Persisted.move_history =
                      before.move_history \o <<Move(From(r), To(r), piece)>>
               /\ Persisted.next_turn = Other(before.next_turn)
               /\ reqs[r].response.content = Move(From(r), To(r), piece)
               /\ Persisted.white_user_id = before.white_user_id
               /\ Persisted.black_user_id = before.black_user_id
               /\ Persisted.game_id = before.game_id
               /\ Persisted.invite_secret = before.invite_secret

\* a second move applied, by Black
C8_Witness ==
    \E r \in Reqs :
        /\ DoneMove(r) /\ Succeeded(r)
        /\ Len(Persisted.move_history) = 2
        /\ Persisted.next_turn = WHITE

\* ------------------------------------------------------------------------
\* the colour that made the last move of a game
LastMover(game) == game.move_history[Len(game.move_history)].chess_piece.color

\* a move request by the player who made the last move of the loaded game
MovesAgain(r) ==
    /\ DoneMove(r)
    /\ Loaded(r).move_history # << >>
    /\ MoverColor(r) = LastMover(Loaded(r))

\* C9: next_turn is WHITE while no move is applied; on the fresh game
\* White's E2->E4 succeeds; a successful move by the player of colour c
\* leaves next_turn at the other colour; and every move request of the
\* player who moved last fails with NotYourTurn, whatever squares it names.
C9_TurnsAlternate ==
    /\ (store # None /\ Persisted.move_history = << >>) => Persisted.next_turn = WHITE
    /\ \A r \in Reqs :
        /\ ( /\ DoneMove(r)
             /\ Loaded(r).move_history = << >>
             /\ Loaded(r).board.pieces = STARTING_POSITION
             /\ reqs[r].user = Loaded(r).white_user_id
             /\ reqs[r].square_from = <<"E", "2">>
             /\ reqs[r].square_to = <<"E", "4">> ) => Succeeded(r)
        /\ (DoneMove(r) /\ Succeeded(r)) =>
               /\ MoverColor(r) \in ChessPieceColor
               /\ Persisted.next_turn = Other(MoverColor(r))
               /\ LastMover(Persisted) = MoverColor(r)
        /\ MovesAgain(r) => Feedback(r) = NotYourTurn

\* the player who moved last names a move that nothing else speaks against
C9_Witness ==
    \E r \in Reqs :
        /\ MovesAgain(r)
        /\ ~ViolatesPiece(r) /\ ~ViolatesColor(r)
        /\ ~ViolatesDestination(r) /\ ~ViolatesShape(r)
        /\ Feedback(r) = NotYourTurn

\* ------------------------------------------------------------------------
\* C10 as stated: every move request whose destination holds a piece fails
\* with SquareOccupied.
C10_OccupiedAlwaysSquareOccupied ==
    \A r \in Reqs :
        (DoneMove(r) /\ ViolatesDestination(r)) => Feedback(r) = SquareOccupied

\* C10 amended: every move request whose destination holds a piece fails,
\* whether or not the move is shape-legal; the failure is SquareOccupied
\* when the four earlier checks pass, and otherwise that of the earliest
\* of them that is violated.
C10_OccupiedDestinationFails ==
    \A r \in Reqs :
        (DoneMove(r) /\ ViolatesDestination(r)) =>
            /\ ~Succeeded(r)
            /\ Feedback(r) =
                   IF ViolatesPlayer(r) THEN NotAPlayer
                   ELSE IF ViolatesTurn(r) THEN NotYourTurn
                   ELSE IF ViolatesPiece(r) THEN EmptySquare
                   ELSE IF ViolatesColor(r) THEN WrongColorPiece
                   ELSE SquareOccupied

\* a shape-legal move onto a piece of the opponent is refused
C10_Witness ==
    \E r \in Reqs :
        /\ DoneMove(r)
        /\ ViolatesDestination(r)
        /\ ~ViolatesPlayer(r) /\ ~ViolatesTurn(r) /\ ~ViolatesPiece(r)
        /\ ~ViolatesColor(r) /\ ~ViolatesShape(r)
        /\ PieceOn(Loaded(r), To(r)).color # MoverColor(r)
        /\ Feedback(r) = SquareOccupied


\* ------------------------------------------------------------------------
\* C11  Moves are applied only once both players are in: every move answered
\* with a success was made on a game whose two slots were filled, and while
\* a slot of the persisted game is empty its move_history is empty and its
\* next_turn is WHITE.

C11_MovesOnlyInProgress ==
    /\ \A r \in Reqs : (DoneMove(r) /\ Succeeded(r)) => BothFilled(Loaded(r))
    /\ (GameKnown /\ ~BothFilled(Persisted)) =>
           /\ Persisted.move_history = << >>
           /\ Persisted.next_turn = WHITE

\* ------------------------------------------------------------------------
\* C12  In the persisted game each player slot changes at most once, from
\* empty to a user id: over every step, a slot that holds a user id keeps
\* that user id.

SlotKept(slot) ==
    (GameKnown /\ Persisted[slot] # None) => Persisted'[slot] = Persisted[slot]

C12_SlotsChangeAtMostOnce ==
    [][SlotKept("white_user_id") /\ SlotKept("black_user_id")]_vars

\* ------------------------------------------------------------------------
\* C13  move_history is append-only: over every step, the persisted
\* move_history is the one before the step, or the one before the step with
\* one Move added at the end.

C13_HistoryAppendOnly ==
    [][GameKnown =>
          \/ Persisted'.move_history = Persisted.move_history
          \/ \E move \in Range(Persisted'.move_history) :
                 Persisted'.move_history = Append(Persisted.move_history, move)]_vars

\* ------------------------------------------------------------------------
\* C14  A move is applied as one unit: once the create request has
\* finished, the persisted game and every game a request has loaded have
\* next_turn WHITE exactly when move_history has even length, and a board
\* equal to the starting position with the moves of move_history applied
\* in order.

RECURSIVE Replay(_, _)
Replay(pieces, history) ==
    IF history = << >>
    THEN pieces
    ELSE Replay(set_piece(remove_piece(pieces, history[1].square_from),
                          history[1].square_to, history[1].chess_piece),
                Tail(history))

WholeMoves(game) ==
    /\ game.next_turn = WHITE <=> Len(game.move_history) % 2 = 0
    /\ game.board.pieces = Replay(STARTING_POSITION, game.move_history)

C14_MoveAppliedAsOneUnit ==
    GameKnown =>
        /\ WholeMoves(Persisted)
        /\ \A r \in Reqs : reqs[r].pc = "loaded" => WholeMoves(Loaded(r))

\* a request holds a loaded game while another request's move has been saved
C14_Witness ==
    /\ GameKnown
    /\ \E r \in Reqs :
        /\ reqs[r].pc = "loaded"
        /\ Len(Loaded(r).move_history) < Len(Persisted.move_history)
    /\ Len(Persisted.move_history) = 2

\* ------------------------------------------------------------------------
\* C15  create produces a game in which the slot of the creator's colour
\* holds the creator and the other slot is empty, next_turn is WHITE,
\* move_history is empty and the board is empty; the board is the starting
\* position once the reset step that follows has been saved, and nothing
\* else differs.

SlotOf(color) == IF color = WHITE THEN "white_user_id" ELSE "black_user_id"

Created(r, game) ==
    /\ game[SlotOf(reqs[r].desired_color)] = reqs[r].user
    /\ game[SlotOf(Other(reqs[r].desired_color))] = None
    /\ game.next_turn = WHITE
    /\ game.move_history = << >>
    /\ game.invite_secret \in GeneratedSecrets

C15_CreateResult ==
    \A r \in Reqs :
        /\ reqs[r].pc = "created" =>
               /\ Created(r, reqs[r].game)
               /\ Created(r, Persisted)
               /\ reqs[r].game.board.pieces = EmptyPieces
               /\ Persisted.board.pieces = EmptyPieces
        /\ (Done(r) /\ reqs[r].kind = "create") =>
               /\ Created(r, Persisted)
               /\ Persisted.board.pieces = STARTING_POSITION
               /\ Succeeded(r)

\* a create for BLACK has stored its game, the board not yet reset
C15_Witness ==
    \E r \in Reqs :
        /\ reqs[r].pc = "created"
        /\ reqs[r].desired_color = BLACK
        /\ Persisted.black_user_id \in Creators
        /\ Persisted.board.pieces = EmptyPieces

\* ------------------------------------------------------------------------
\* C16  Round trip: every game a handler holds (the game create built, the
\* game a request loaded, and the game a handler has after its reset, join
\* or move) is equal, field by field, to the decoding of its encoding.

\* the game in the hands of a handler that has answered
After(r) ==
    IF reqs[r].kind = "create"
    THEN [Loaded(r) EXCEPT
             !.board = [pieces |-> reset_to_starting_position(@.pieces)]]
    ELSE IF reqs[r].kind = "join"
    THEN JoinBody(Loaded(r), reqs[r].user, reqs[r].invite_secret).game
    ELSE PlayBody(Loaded(r), reqs[r].user, From(r), To(r)).game

Fields ==
    {"game_id", "board", "move_history", "white_user_id", "black_user_id",
     "invite_secret", "next_turn"}

RoundTrip(game) ==
    /\ DOMAIN deserialize(serialize(game)) = Fields
    /\ \A f \in Fields : deserialize(serialize(game))[f] = game[f]

C16_RoundTrip ==
    \A r \in Reqs :
        Loaded(r) # None =>
            /\ RoundTrip(Loaded(r))
            /\ Done(r) => RoundTrip(After(r))

\* a handler has answered a second move: its game has both slots filled,
\* two moves in the history and a board that is not the starting position
C16_Witness ==
    \E r \in Reqs :
        /\ DoneMove(r) /\ Succeeded(r)
        /\ Len(After(r).move_history) = 2
        /\ BothFilled(After(r))
        /\ After(r).board.pieces # STARTING_POSITION

\* ------------------------------------------------------------------------
\* C17  deserialize fails, and returns no game, on every structurally
\* invalid input: a missing field, an unknown piece-type or colour token,
\* or a square text that is not exactly one file letter A..H followed by
\* one rank digit 1..8.

ValidSquareText(t) ==
    /\ Len(t) = 2
    /\ t[1] \in Range(VALID_FILES)
    /\ t[2] \in Range(VALID_RANKS)

ValidPiece(v) ==
    /\ DOMAIN v = {"piece_type", "color"}
    /\ v.piece_type \in ChessPieceType
    /\ v.color \in ChessPieceColor

StructurallyValid(obj) ==
    /\ DOMAIN obj = Fields
    /\ DOMAIN obj.board = {"pieces"}
    /\ \A k \in DOMAIN obj.board.pieces :
           ValidSquareText(k) /\ ValidPiece(obj.board.pieces[k])
    /\ \A i \in DOMAIN obj.move_history :
           /\ DOMAIN obj.move_history[i] = {"square_from", "square_to", "chess_piece"}
           /\ ValidSquareText(obj.move_history[i].square_from)
           /\ ValidSquareText(obj.move_history[i].square_to)
           /\ ValidPiece(obj.move_history[i].chess_piece)
    /\ obj.next_turn \in ChessPieceColor

Deserialized == call.fn = "deserialize" /\ call.returned

C17_InvalidInputFails ==
    (Deserialized /\ ~StructurallyValid(call.arg)) => call.result = Raised

\* ------------------------------------------------------------------------
\* C18  The text of each of the 64 squares parses back to that square, and
\* every other text parses to None (the handler's "Invalid square ..."
\* failure).

Converted == call.fn = "convert_input_to_board_square" /\ call.returned

C18_SquareTextRoundTrip ==
    Converted =>
        /\ \A sq \in AllSquares : call.arg = repr(sq) => call.result = sq
        /\ call.arg \notin {repr(sq) : sq \in AllSquares} => call.result = None

\* the text of H8 has been parsed to the square H8
C18_Witness ==
    /\ Converted
    /\ call.arg = repr(BoardSquare("H", "8"))
    /\ call.result = BoardSquare("H", "8")

\* ------------------------------------------------------------------------
\* C19  After reset_to_starting_position, whatever the board held before,
\* the board has 32 occupied squares, 16 per colour, each colour with 8
\* pawns, 2 rooks, 2 knights, 2 bishops, 1 queen and 1 king, White on ranks
\* 1-2 and Black on ranks 7-8 with the pawns on ranks 2 and 7, and it is the
\* same board as a reset of the empty board gives.

SquaresOf(pieces, types, color) ==
    {sq \in DOMAIN pieces : pieces[sq].piece_type \in types /\ pieces[sq].color = color}

HasArmy(pieces, color, back_rank, pawn_rank) ==
    /\ Cardinality(SquaresOf(pieces, ChessPieceType, color)) = 16
    /\ Cardinality(SquaresOf(pieces, {PAWN}, color)) = 8
    /\ Cardinality(SquaresOf(pieces, {ROOK}, color)) = 2
    /\ Cardinality(SquaresOf(pieces, {KNIGHT}, color)) = 2
    /\ Cardinality(SquaresOf(pieces, {BISHOP}, color)) = 2
    /\ Cardinality(SquaresOf(pieces, {QUEEN}, color)) = 1
    /\ Cardinality(SquaresOf(pieces, {KING}, color)) = 1
    /\ \A sq \in SquaresOf(pieces, {PAWN}, color) : sq.rank = pawn_rank
    /\ \A sq \in SquaresOf(pieces, ChessPieceType \ {PAWN}, color) : sq.rank = back_rank

WasReset == call.fn = "reset_to_starting_position" /\ call.returned

C19_ResetGivesStartingPosition ==
    WasReset =>
        /\ Cardinality(DOMAIN call.result) = 32
        /\ HasArmy(call.result, WHITE, "1", "2")
        /\ HasArmy(call.result, BLACK, "8", "7")
        /\ call.result = reset_to_starting_position(EmptyPieces)

\* a board holding one piece on E4 has been reset: E4 is empty
C19_Witness ==
    /\ WasReset
    /\ BoardSquare("E", "4") \in DOMAIN call.arg
    /\ BoardSquare("E", "4") \notin DOMAIN call.result

\* ------------------------------------------------------------------------
\* C20  No path-blocking: two games that agree on both slots, on next_turn
\* and on what stands on the two squares of a move give the same answer
\* (a success, or the same failure) to the same mover, whatever stands on
\* the squares in between or anywhere else.

Played == call.fn = "play_chess_move" /\ call.returned

Agree(game1, game2, square_from, square_to) ==
    /\ game1.white_user_id = game2.white_user_id
    /\ game1.black_user_id = game2.black_user_id
    /\ game1.next_turn = game2.next_turn
    /\ get_piece_on_square(game1.board.pieces, square_from)
           = get_piece_on_square(game2.board.pieces, square_from)
    /\ get_piece_on_square(game1.board.pieces, square_to)
           = get_piece_on_square(game2.board.pieces, square_to)

FileDistance(square_from, square_to) ==
    abs(IndexOf(VALID_FILES, square_from.file) - IndexOf(VALID_FILES, square_to.file))

RankDistance(square_from, square_to) ==
    abs(IndexOf(VALID_RANKS, square_from.rank) - IndexOf(VALID_RANKS, square_to.rank))

ShapeOf(t) == call.fn = "can_make_move" /\ call.returned /\ call.arg.piece.piece_type = t

PawnRule(square_from, square_to) ==
    LET fd == FileDistance(square_from, square_to)
        rd == RankDistance(square_from, square_to)
    IN \/ /\ fd = 0
          /\ \/ square_from.rank = "2" /\ square_to.rank = "4"
             \/ square_from.rank = "7" /\ square_to.rank = "5"
             \/ rd = 1
       \/ fd = 1 /\ rd = 1

C22_BishopShapeNonzero ==
    ShapeOf(BISHOP) =>
        /\ call.result <=>
               FileDistance(call.arg.square_from, call.arg.square_to)
                   = RankDistance(call.arg.square_from, call.arg.square_to)
        /\ call.arg.square_from = call.arg.square_to => ~call.result

\* as the code has it: the file distance equals the rank distance, which
\* holds for a move from a square to the same square (both distances 0)
C22_BishopShape ==
    ShapeOf(BISHOP) =>
        /\ call.result <=>
               FileDistance(call.arg.square_from, call.arg.square_to)
                   = RankDistance(call.arg.square_from, call.arg.square_to)
        /\ call.arg.square_from = call.arg.square_to => call.result

\* a bishop has been allowed to go from C1 to C1
C22_Witness ==
    /\ ShapeOf(BISHOP)
    /\ call.arg.square_from = BoardSquare("C", "1")
    /\ call.arg.square_to = BoardSquare("C", "1")
    /\ call.result

\* ------------------------------------------------------------------------
\* C23  For every pair of squares: a knight's move has a legal shape
\* exactly when (file distance, rank distance) is (1,2) or (2,1); a rook's
\* when the squares share a file or a rank; a queen's when it is a rook's
\* or a bishop's shape; a king's when both distances are at most 1.

Shaped == call.fn = "can_make_move" /\ call.returned

RookRule(square_from, square_to) ==
    FileDistance(square_from, square_to) = 0 \/ RankDistance(square_from, square_to) = 0

BishopRule(square_from, square_to) ==
    FileDistance(square_from, square_to) = RankDistance(square_from, square_to)

KnightRule(square_from, square_to) ==
    <<FileDistance(square_from, square_to), RankDistance(square_from, square_to)>>
        \in {<<1, 2>>, <<2, 1>>}

KingRule(square_from, square_to) ==
    FileDistance(square_from, square_to) <= 1 /\ RankDistance(square_from, square_to) <= 1

C23_OtherShapes ==
    Shaped =>
        LET t == call.arg.piece.piece_type
            f == call.arg.square_from
            g == call.arg.square_to
        IN /\ t = KNIGHT => (call.result <=> KnightRule(f, g))
           /\ t = ROOK => (call.result <=> RookRule(f, g))
           /\ t = QUEEN => (call.result <=> (RookRule(f, g) \/ BishopRule(f, g)))
           /\ t = KING => (call.result <=> KingRule(f, g))
           /\ (t = KNIGHT /\ f = BoardSquare("B", "1")) =>
                  /\ g \in {BoardSquare("A", "3"), BoardSquare("C", "3")} => call.result
                  /\ g = BoardSquare("B", "3") => ~call.result

\* a knight has been allowed B1 -> A3, two ranks along and one file aside
C23_Witness ==
    /\ ShapeOf(KNIGHT)
    /\ call.arg.square_from = BoardSquare("B", "1")
    /\ call.arg.square_to = BoardSquare("A", "3")
    /\ call.result

\* ------------------------------------------------------------------------
\* C24  Piece conservation: once the create request has finished, the
\* persisted board (the stored mapping from square texts to pieces) holds
\* exactly the 32 starting pieces, the same number of each piece type per
\* colour as the starting position, and no move answered with a success
\* landed on an occupied square.

\* how many pieces of each type and colour the starting position has
StartingCount ==
    [t \in ChessPieceType, c \in ChessPieceColor |->
        Cardinality(SquaresOf(STARTING_POSITION, {t}, c))]

SamePieces(pieces) ==
    /\ Cardinality(DOMAIN pieces) = 32
    /\ \A t \in ChessPieceType, c \in ChessPieceColor :
           Cardinality(SquaresOf(pieces, {t}, c)) = StartingCount[t, c]

C24_PieceConservation ==
    /\ GameKnown => SamePieces(store.board.pieces)
    /\ \A r \in Reqs : (DoneMove(r) /\ Succeeded(r)) => ~Occupied(Loaded(r), To(r))

\* two moves were answered with a success, one of them was overwritten by
\* the other, and the persisted board is not the starting position
C24_Witness ==
    /\ GameKnown
    /\ Len(acked) = 2
    /\ Len(Persisted.move_history) = 1
    /\ Persisted.board.pieces # STARTING_POSITION
    /\ SamePieces(store.board.pieces)

\* ------------------------------------------------------------------------
\* C25  A move from a square to the same square never succeeds, whatever
\* piece stands there: the request is answered with a failure and the step
\* that answers it leaves the stored game (turn and move_history included)
\* as it was.

NoOp(r) == reqs'[r].square_from = reqs'[r].square_to

C25_NoOpMoveRejected ==
    [][\A r \in Reqs :
          (PlayFinishes(r) /\ NoOp(r)) =>
              /\ reqs'[r].response.status_code # 200
              /\ store' = store
              /\ acked' = acked]_vars

\* the king's player, on their turn, asked to move the king from E1 to E1,
\* which the king's shape accepts, and was told the square is occupied
C25_Witness ==
    \E r \in Reqs :
        /\ DoneMove(r)
        /\ From(r) = BoardSquare("E", "1")
        /\ To(r) = BoardSquare("E", "1")
        /\ _can_king_move(Move(From(r), To(r), PieceOn(Loaded(r), From(r))))
        /\ Feedback(r) = SquareOccupied

\* ------------------------------------------------------------------------
\* C26  No user plays both sides: in every persisted state (the stored
\* record, whose slots hold null or a user id), with requests racing,
\* white_user_id and black_user_id are not the same user id when both are
\* set.

C26_NoUserOnBothSides ==
    GameKnown =>
        ((store.white_user_id # null /\ store.black_user_id # null)
            => store.white_user_id # store.black_user_id)

\* a user sent two joins at once: one has been answered with a success and
\* has filled the slot, the other still holds the game with the slot empty
C26_Witness ==
    /\ GameKnown
    /\ BothFilled(Persisted)
    /\ \E r \in Reqs :
        /\ reqs[r].pc = "loaded"
        /\ reqs[r].kind = "join"
        /\ ~BothFilled(Loaded(r))
        /\ joined # {}

\* ------------------------------------------------------------------------
\* C27  Usernames are unique: once an account with username n is stored,
\* every create_account for n is answered "Username already exists" and
\* stores no second account.

Taken(username) ==
    \E key \in DOMAIN accounts : accounts[key].username = username

CreateAccountFinishes == signup.pc = "loaded" /\ signup'.pc = "done"

C27_UsernamesUnique ==
    [][(CreateAccountFinishes /\ Taken(signup.username)) =>
          /\ signup'.response = failure(UsernameExists, 400)
          /\ accounts' = accounts]_vars

====
